---- MODULE Spec2Model ----
(***************************************************************************)
(* Model of easybuild/tools/multidiff.py: the MultiDiff class (parse_line, *)
(* merge_squigly, colorize, get_line, __str__) and the function            *)
(* multidiff() that feeds it from difflib.Differ streams.                  *)
(*                                                                         *)
(* Text is modelled as sequences of one-character strings, so that         *)
(* rstrip(), diff_line[0], startswith() and the column-wise highlight      *)
(* merge are computed as the code computes them.  Colour escape codes are  *)
(* single tokens.  A rendered text line '<line_no> <text> (<k>/<n>) <names>'*)
(* is kept as a record of its fields; limit() (the cut to the terminal     *)
(* width, an external quantity) is not modelled.                           *)
(***************************************************************************)
EXTENDS Integers, Sequences, FiniteSets, TLC

\* ------------------------------------------------------------------ bounds
\* longest base text (number of lines) the runs of multidiff() use
MaxBase == 3
\* '+', '-' and '?' lines the differ yields in one run of multidiff(), all files
\* together
MaxChanges == 3
\* parse_line calls in a direct use of the class, for the variant selection
MaxVariantCalls == 5
\* parse_line calls in a direct use of the class, for the highlights
MaxHighlightCalls == 2

\* --------------------------------------------------------- program constants
SEP_WIDTH == 5
MAX_DIFF_GROUPS == 3
HAT == "^"
MINUS == "-"
PLUS == "+"
SPACE == " "
QUESTIONMARK == "?"
NEWLINE == "\n"
PURPLE == "<PURPLE>"
GREEN_BACK == "<GREEN_BACK>"
RED_BACK == "<RED_BACK>"
END_COLOR == "<END_COLOR>"
\* Python's None, as a key of squigly_dict and a value of last_added
NONE == <<"<None>">>

\* ------------------------------------------------------------------- inputs
\* the base text is a prefix of these lines
BaseText == <<"a", "b", "c", "a">>
\* lines a compared file can hold that the base does not
FileOnlyTexts == {<<"x">>}
\* the compared files: two of them share a basename
Paths == << <<"d1", "A">>, <<"d2", "A">>, <<"d1", "B">> >>
\* the basename of the base file
BASE_FN == "base"

\* ------------------------------------------------------------ pure helpers
\* str.rstrip(): trailing whitespace removed
RECURSIVE rstrip(_)
rstrip(s) ==
    IF s = <<>> THEN s
    ELSE IF s[Len(s)] \in {SPACE, NEWLINE} THEN rstrip(SubSeq(s, 1, Len(s) - 1))
    ELSE s

\* os.path.basename(): the last component of a path
basename(path) == path[Len(path)]

\* str.startswith(c) for a one-character prefix
startswith(line, c) == Len(line) >= 1 /\ line[1] = c

\* list.insert(idx, x) with a 0-based idx: past the end it appends
ListInsert(s, idx, x) ==
    IF idx >= Len(s) THEN Append(s, x)
    ELSE SubSeq(s, 1, idx) \o <<x>> \o SubSeq(s, idx + 1, Len(s))

\* dict.get(key, default)
DictGet(d, key, default) == IF key \in DOMAIN d THEN d[key] ELSE default

\* dict[key] = value
DictSet(d, key, value) == [k \in DOMAIN d \cup {key} |-> IF k = key THEN value ELSE d[k]]

\* ' ' * n
Spaces(n) == [k \in 1..n |-> SPACE]

\* int(math.log10(n)) for n >= 1: the largest k with 10^k <= n
RECURSIVE IntLog10(_)
IntLog10(n) == IF n < 10 THEN 0 ELSE 1 + IntLog10(n \div 10)

\* the elements of a set of integers in increasing order
RECURSIVE SortedSeq(_)
SortedSeq(S) ==
    IF S = {} THEN <<>>
    ELSE LET m == CHOOSE x \in S : \A y \in S : x <= y
         IN <<m>> \o SortedSeq(S \ {m})

\* -------------------------------------------------------------------- state
VARIABLES
    base_lines,    \* MultiDiff.base_lines: the lines of the base text
    files,         \* MultiDiff.files: the paths of the compared files
    colored,       \* MultiDiff.colored
    diff_info,     \* MultiDiff.diff_info: line_no -> key -> list of (diff_line, meta, squigly_line)
    pc,            \* where the run is
    fidx,          \* multidiff(): index in files of the file being compared (1-based)
    diff,          \* multidiff(): the lines differ.compare() has yielded for that file
    bpos,          \* difflib: number of base lines the differ has emitted for that file
    local_diff,    \* multidiff(): line_no -> list of (line, filename)
    squigly_dict,  \* multidiff(): line -> the '?' line that followed it
    last_added,    \* multidiff(): the last '+'/'-' line seen, or None
    offset,        \* multidiff(): running offset
    line_i,        \* __str__: loop index i; in a direct call, the argument of get_line
    output,        \* __str__: the output list; in a direct call, what get_line returned
    has_diff,      \* __str__: its local flag 'diff'
    used,          \* how much of the bounds the run has used
    inserted_by    \* history: which path's comparison made which parse_line call

vars == <<base_lines, files, colored, diff_info, pc, fidx, diff, bpos, local_diff,
          squigly_dict, last_added, offset, line_i, output, has_diff, used, inserted_by>>

mdiff_vars == <<base_lines, files, colored>>
loop_vars == <<diff, bpos, local_diff, squigly_dict, last_added, offset>>
str_vars == <<line_i, output, has_diff>>

\* ------------------------------------------------------------ class MultiDiff
\* parse_line(line_no, diff_line, meta, squigly_line) applied to the table d
parse_line(d, line_no, diff_line, meta, squigly_line) ==
    LET key == diff_line[1]
        diff_dict == DictGet(d, line_no, <<>>)
        line_key_tuples == DictGet(diff_dict, key, <<>>)
        tuple == [diff_line |-> diff_line, meta |-> meta, squigly_line |-> squigly_line]
    IN DictSet(d, line_no, DictSet(diff_dict, key, Append(line_key_tuples, tuple)))

\* color_line(line, color)
color_line(line, color) == IF colored THEN <<color, line, END_COLOR>> ELSE <<line>>

\* a merge that takes squigly1 as base also when the two are of equal length
merge_squigly_ge(squigly1, squigly2) ==
    LET longer == Len(squigly1) >= Len(squigly2)
        base == IF longer THEN squigly1 ELSE squigly2
        other == IF longer THEN squigly2 ELSE squigly1
    IN [i \in 1..Len(base) |->
            IF i <= Len(other) /\ base[i] \in {HAT, SPACE} /\ base[i] # other[i]
            THEN other[i] ELSE base[i]]

\* merge_squigly(squigly1, squigly2)
merge_squigly(squigly1, squigly2) ==
    LET longer == Len(squigly1) > Len(squigly2)
        base == IF longer THEN squigly1 ELSE squigly2
        other == IF longer THEN squigly2 ELSE squigly1
    IN [i \in 1..Len(base) |->
            IF i <= Len(other) /\ base[i] \in {HAT, SPACE} /\ base[i] # other[i]
            THEN other[i] ELSE base[i]]

\* colorize(): the loop over the squigly line, i 0-based
RECURSIVE ColorizeLoop(_, _, _, _, _, _)
ColorizeLoop(chars, squigly, i, off, flag, color_map) ==
    IF i >= Len(squigly) THEN ListInsert(chars, Len(squigly) + off, END_COLOR)
    ELSE LET squigly_char == squigly[i + 1]
             colour == squigly_char \in {HAT, MINUS, PLUS}
             c1 == ListInsert(chars, i + off, END_COLOR)
             c2 == IF colour THEN ListInsert(c1, i + off + 1, color_map[squigly_char]) ELSE c1
         IN IF squigly_char # flag
            THEN ColorizeLoop(c2, squigly, i + 1, off + (IF colour THEN 2 ELSE 1),
                              squigly_char, color_map)
            ELSE ColorizeLoop(chars, squigly, i + 1, off, flag, color_map)

\* colorize(line, squigly)
colorize(line, squigly) ==
    LET color_map == (HAT :> (IF startswith(line, PLUS) THEN GREEN_BACK ELSE RED_BACK))
                     @@ (MINUS :> RED_BACK) @@ (PLUS :> GREEN_BACK)
    IN IF ~colored THEN line
       ELSE IF squigly # <<>> THEN ColorizeLoop(line, squigly, 0, 0, SPACE, color_map)
       ELSE (IF line[1] \in DOMAIN color_map THEN <<color_map[line[1]]>> ELSE <<>>)
            \o line \o <<END_COLOR>>

\* get_line(): the tuples registered for line_no under key
KeyTuples(line_no, key) == DictGet(DictGet(diff_info, line_no, <<>>), key, <<>>)

\* get_line(): the set 'lines' of distinct diff lines of a list of tuples
LinesOf(tuples) == {tuples[k].diff_line : k \in DOMAIN tuples}

\* get_line(): changes_dict, diff line -> set of the metas registered with it
ChangesDict(tuples) ==
    [line \in LinesOf(tuples) |->
        {tuples[k].meta : k \in {j \in DOMAIN tuples : tuples[j].diff_line = line}}]

\* get_line(): squigly_dict after the first k tuples, merging in insertion order
RECURSIVE SquiglyDict(_, _)
SquiglyDict(tuples, k) ==
    IF k = 0 THEN <<>>
    ELSE LET sd == SquiglyDict(tuples, k - 1)
             t == tuples[k]
         IN IF t.squigly_line # <<>>
            THEN DictSet(sd, t.diff_line,
                         IF t.diff_line \in DOMAIN sd
                         THEN merge_squigly(t.squigly_line, sd[t.diff_line])
                         ELSE t.squigly_line)
            ELSE sd

\* get_line(): the arrangements of a set of lines in non-decreasing count
RECURSIVE Arrangements(_, _)
Arrangements(lines, changes_dict) ==
    IF lines = {} THEN {<<>>}
    ELSE LET least == {l \in lines : \A m \in lines :
                          Cardinality(changes_dict[l]) <= Cardinality(changes_dict[m])}
         IN UNION {{<<l>> \o rest : rest \in Arrangements(lines \ {l}, changes_dict)} :
                      l \in least}

\* sorted(lines, key=count) without the cut to MAX_DIFF_GROUPS
SortedLinesUncut(tuples) == Arrangements(LinesOf(tuples), ChangesDict(tuples))

\* get_line(): what sorted(lines, key=count)[:MAX_DIFF_GROUPS] can return.  'lines'
\* is a set, whose iteration order is arbitrary, and sorted() is stable: every
\* arrangement in non-decreasing count, cut to the first MAX_DIFF_GROUPS
SortedLines(tuples) ==
    {SubSeq(p, 1, IF Len(p) < MAX_DIFF_GROUPS THEN Len(p) ELSE MAX_DIFF_GROUPS) :
        p \in Arrangements(LinesOf(tuples), ChangesDict(tuples))}

\* get_line(): whether the padding of the squigly row can be computed
\* (math.log10(0) raises ValueError)
RowRaises(line_no, squigly_line) == ~colored /\ squigly_line # <<>> /\ line_no <= 0

\* a padding that ignores the length of the line number
PrependTwo(line_no) == Spaces(2)

\* get_line(): prepend = ' ' * (2 + int(math.log10(line_no))), for line_no >= 1
Prepend(line_no) == Spaces(2 + IntLog10(line_no))

\* get_line(): the one or two output entries of one diff line
RowsOf(line_no, diff_line, tuples) ==
    LET squigly_line == DictGet(SquiglyDict(tuples, Len(tuples)), diff_line, <<>>)
        metas == ChangesDict(tuples)[diff_line]
        num_files == Len(files)
        row == [kind |-> "diff", line_no |-> line_no,
                text |-> colorize(diff_line, squigly_line),
                count |-> Cardinality(metas), total |-> num_files,
                names |-> IF Cardinality(metas) # num_files THEN metas ELSE {}]
    IN IF ~colored /\ squigly_line # <<>> /\ line_no > 0
       THEN <<row, [kind |-> "text",
                    chars |-> Prepend(line_no) \o squigly_line]>>
       ELSE <<row>>

\* get_line(): the output entries of the chosen diff lines of one key
RECURSIVE KeyRows(_, _, _)
KeyRows(line_no, lines, tuples) ==
    IF lines = <<>> THEN <<>>
    ELSE RowsOf(line_no, Head(lines), tuples) \o KeyRows(line_no, Tail(lines), tuples)

\* get_line(): the separator
Separator == << [kind |-> "text", chars |-> <<SPACE>>],
                [kind |-> "text", chars |-> [k \in 1..SEP_WIDTH |-> "-"]],
                [kind |-> "text", chars |-> <<SPACE>>] >>

\* a separator after every line number that has records
SeparatorAfterEveryLine(line_no) == DOMAIN DictGet(diff_info, line_no, <<>>) # {}

\* get_line(): 'if diff_dict and not self.diff_info.get(line_no + 1, {})'
NeedsSeparator(line_no) ==
    /\ DOMAIN DictGet(diff_info, line_no, <<>>) # {}
    /\ DOMAIN DictGet(diff_info, line_no + 1, <<>>) = {}

\* get_line(line_no), with the order sorted() gave the lines of each key
get_line(line_no, minus_lines, plus_lines) ==
    LET mt == KeyTuples(line_no, MINUS)
        pt == KeyTuples(line_no, PLUS)
        raises == \/ \E k \in DOMAIN minus_lines :
                        RowRaises(line_no, DictGet(SquiglyDict(mt, Len(mt)), minus_lines[k], <<>>))
                  \/ \E k \in DOMAIN plus_lines :
                        RowRaises(line_no, DictGet(SquiglyDict(pt, Len(pt)), plus_lines[k], <<>>))
        rows == KeyRows(line_no, minus_lines, mt) \o KeyRows(line_no, plus_lines, pt)
        sep == IF NeedsSeparator(line_no) THEN Separator ELSE <<>>
    IN IF raises THEN [raised |-> TRUE, output |-> <<>>]
       ELSE [raised |-> FALSE, output |-> rows \o sep]

\* everything get_line(line_no) can return
GetLineResults(line_no) ==
    {get_line(line_no, ml, pl) : ml \in SortedLines(KeyTuples(line_no, MINUS)),
                                 pl \in SortedLines(KeyTuples(line_no, PLUS))}

\* __str__(): the header entries
Header ==
    << [kind |-> "header", base |-> color_line(BASE_FN, PURPLE),
        filenames |-> [k \in 1..Len(files) |-> basename(files[k])]],
       [kind |-> "text", chars |-> [k \in 1..SEP_WIDTH |-> "="]] >>

\* __str__(): the '(no diff)' entry and the closing rule
NoDiff == [kind |-> "text", chars |-> <<"(no diff)">>]
Footer == [kind |-> "text", chars |-> [k \in 1..SEP_WIDTH |-> "="]]

\* __str__(): everything the loop 'for i in range(len(self.base_lines))' can
\* come to from round i on, with the output list and the flag 'diff' so far:
\* the final output, or the ValueError get_line raised in round i
RECURSIVE StrResults(_, _, _)
StrResults(i, out, diff_flag) ==
    IF i >= Len(base_lines)
    THEN {[raised |-> FALSE, i |-> i, diff |-> diff_flag,
           output |-> out \o (IF ~diff_flag THEN <<NoDiff>> ELSE <<>>) \o <<Footer>>]}
    ELSE UNION {IF r.raised
                THEN {[raised |-> TRUE, i |-> i, diff |-> diff_flag, output |-> out]}
                ELSE IF r.output # <<>>
                THEN StrResults(i + 1, Append(out, [kind |-> "block", line_no |-> i,
                                                    lines |-> r.output]), TRUE)
                ELSE StrResults(i + 1, out, diff_flag) : r \in GetLineResults(i)}

\* --------------------------------------------------------------- multidiff()
\* base_lines = read_file(base).split('\n'): never empty
BaseLine(k) == <<BaseText[((k - 1) % Len(BaseText)) + 1]>>
BaseChoices == {[k \in 1..n |-> BaseLine(k)] : n \in 1..MaxBase}

\* the lists of compared files: none, one, two with the same basename, two with
\* different basenames
FileLists == {<<>>, <<Paths[1]>>, <<Paths[1], Paths[2]>>, <<Paths[1], Paths[3]>>}

\* the filename of the file being compared
filename == basename(files[fidx])

\* the lines difflib.Differ yields
ContextLine(text) == <<SPACE, SPACE>> \o text
AddedLine(text) == <<PLUS, SPACE>> \o text
RemovedLine(text) == <<MINUS, SPACE>> \o text
HighlightLine(tags) == <<QUESTIONMARK, SPACE>> \o tags \o <<NEWLINE>>

\* the tags of a '?' line under a '-' or a '+' line: difflib marks a column of a
\* '-' line with '-' or '^', a column of a '+' line with '+' or '^'
HighlightTags(tag) == {<<HAT>>, <<tag>>}

\* local_diff.setdefault(line_no, []).append(entry)
SetDefaultAppend(d, line_no, entry) == DictSet(d, line_no, Append(DictGet(d, line_no, <<>>), entry))

\* a record keyed one lower: the line number counted from 0
ZeroBasedRecordLineNo(i) == i + offset - 1

\* the key 'i + offset' under which a '+' or '-' line is put into local_diff
RecordLineNo(i) == i + offset

\* the body of 'for (i, line) in enumerate(diff)' for the line the differ yields
LoopBody(line) ==
    LET i == Len(diff)
    IN /\ diff' = Append(diff, line)
       /\ IF startswith(line, QUESTIONMARK)
          THEN /\ squigly_dict' = DictSet(squigly_dict, last_added, line)
               /\ offset' = offset - 1
               /\ UNCHANGED <<local_diff, last_added>>
          ELSE IF startswith(line, PLUS)
          THEN /\ local_diff' = SetDefaultAppend(local_diff, RecordLineNo(i),
                                                 [line |-> line, filename |-> filename])
               /\ last_added' = line
               /\ UNCHANGED <<squigly_dict, offset>>
          ELSE IF startswith(line, MINUS)
          THEN /\ local_diff' = SetDefaultAppend(local_diff, RecordLineNo(i),
                                                 [line |-> line, filename |-> filename])
               /\ last_added' = line
               /\ offset' = offset - 1
               /\ UNCHANGED squigly_dict
          ELSE UNCHANGED <<local_diff, squigly_dict, last_added, offset>>

\* squigly_dict.get(line, '').rstrip(): the highlight a line is registered with
InsertedSquigly(line) == rstrip(DictGet(squigly_dict, line, <<>>))

\* 'for (line, filename) in local_diff[line_no]: mdiff.parse_line(...)'
RECURSIVE InsertEntries(_, _, _)
InsertEntries(d, line_no, entries) ==
    IF entries = <<>> THEN d
    ELSE LET e == Head(entries)
         IN InsertEntries(parse_line(d, line_no, rstrip(e.line), e.filename,
                                     InsertedSquigly(e.line)),
                          line_no, Tail(entries))

\* 'for line_no in local_diff: ...'; the order of the line numbers does not
\* matter, each has its own entry of diff_info
RECURSIVE InsertLines(_, _)
InsertLines(d, line_nos) ==
    IF line_nos = <<>> THEN d
    ELSE InsertLines(InsertEntries(d, Head(line_nos), local_diff[Head(line_nos)]), Tail(line_nos))

\* ------------------------------------------------------------------ actions
Init ==
    /\ base_lines \in BaseChoices
    /\ files \in FileLists
    /\ colored \in BOOLEAN
    /\ diff_info = <<>>
    /\ pc = "files"
    /\ fidx = 1
    /\ diff = <<>>
    /\ bpos = 0
    /\ local_diff = <<>>
    /\ squigly_dict = <<>>
    /\ last_added = NONE
    /\ offset = 1
    /\ line_i = 0
    /\ output = <<>>
    /\ has_diff = FALSE
    /\ used = [changes |-> 0, calls |-> 0]
    /\ inserted_by = {}

\* 'for filepath in files:' takes the next file; the loop's locals are set up
CompareFile ==
    /\ pc = "files"
    /\ fidx <= Len(files)
    /\ diff' = <<>>
    /\ bpos' = 0
    /\ local_diff' = <<>>
    /\ squigly_dict' = <<>>
    /\ last_added' = NONE
    /\ offset' = 1
    /\ pc' = "loop"
    /\ UNCHANGED <<mdiff_vars, diff_info, fidx, str_vars, used, inserted_by>>

\* the differ yields the next base line as a context line
LoopContext ==
    /\ pc = "loop"
    /\ bpos < Len(base_lines)
    /\ LoopBody(ContextLine(base_lines[bpos + 1]))
    /\ bpos' = bpos + 1
    /\ UNCHANGED <<mdiff_vars, diff_info, pc, fidx, str_vars, used, inserted_by>>

\* the differ yields the next base line as a '+' line: the file does not have it
LoopPlus ==
    /\ pc = "loop"
    /\ bpos < Len(base_lines)
    /\ used.changes < MaxChanges
    /\ LoopBody(AddedLine(base_lines[bpos + 1]))
    /\ bpos' = bpos + 1
    /\ used' = [used EXCEPT !.changes = @ + 1]
    /\ UNCHANGED <<mdiff_vars, diff_info, pc, fidx, str_vars, inserted_by>>

\* the differ yields a line of the file as a '-' line: the base does not have it
LoopMinus ==
    /\ pc = "loop"
    /\ used.changes < MaxChanges
    /\ \E text \in FileOnlyTexts : LoopBody(RemovedLine(text))
    /\ used' = [used EXCEPT !.changes = @ + 1]
    /\ UNCHANGED <<mdiff_vars, diff_info, pc, fidx, bpos, str_vars, inserted_by>>

\* the differ yields a '?' line, right after the '-' or '+' line it is about
LoopQuestion ==
    /\ pc = "loop"
    /\ used.changes < MaxChanges
    /\ diff # <<>>
    /\ diff[Len(diff)][1] \in {MINUS, PLUS}
    /\ \E tags \in HighlightTags(diff[Len(diff)][1]) : LoopBody(HighlightLine(tags))
    /\ used' = [used EXCEPT !.changes = @ + 1]
    /\ UNCHANGED <<mdiff_vars, diff_info, pc, fidx, bpos, str_vars, inserted_by>>

\* the differ is exhausted; the file's entries are registered with parse_line
InsertAll ==
    /\ pc = "loop"
    /\ bpos = Len(base_lines)
    /\ diff_info' = InsertLines(diff_info, SortedSeq(DOMAIN local_diff))
    /\ inserted_by' = inserted_by \cup
            {[line_no |-> n, diff_line |-> rstrip(local_diff[n][k].line), path |-> files[fidx]] :
                <<n, k>> \in {<<m, j>> \in (DOMAIN local_diff) \X (1..MaxChanges) :
                                 j <= Len(local_diff[m])}}
    /\ fidx' = fidx + 1
    /\ pc' = "files"
    /\ UNCHANGED <<mdiff_vars, loop_vars, str_vars, used>>

\* __str__(): mdiff is rendered.  One get_line result is taken for every i of
\* 'for i in range(len(self.base_lines))'; a ValueError of get_line ends the call
Str ==
    /\ pc = "files"
    /\ fidx > Len(files)
    /\ \E r \in StrResults(0, Header, FALSE) :
          /\ output' = r.output
          /\ has_diff' = r.diff
          /\ line_i' = r.i
          /\ pc' = IF r.raised THEN "raised" ELSE "done"
    /\ UNCHANGED <<mdiff_vars, diff_info, fidx, loop_vars, used, inserted_by>>

Next ==
    \/ CompareFile
    \/ LoopContext
    \/ LoopPlus
    \/ LoopMinus
    \/ LoopQuestion
    \/ InsertAll
    \/ Str

Spec == Init /\ [][Next]_vars

\* a differ that does not keep difflib's contract: it yields a '?' line before any
\* '-' or '+' line of the file
LoopStray ==
    /\ pc = "loop"
    /\ used.changes < MaxChanges
    /\ last_added = NONE
    /\ LoopBody(HighlightLine(<<HAT>>))
    /\ used' = [used EXCEPT !.changes = @ + 1]
    /\ UNCHANGED <<mdiff_vars, diff_info, pc, fidx, bpos, str_vars, inserted_by>>

NextMalformed ==
    \/ Next
    \/ LoopStray

SpecMalformed == Init /\ [][NextMalformed]_vars

\* ------------------------------------------------- direct use of the class
\* MultiDiff(base_fn, base_lines, files, colored) for two files A and B
InitApi ==
    /\ base_lines = <<BaseLine(1)>>
    /\ files = <<Paths[1], Paths[3]>>
    /\ colored \in BOOLEAN
    /\ diff_info = <<>>
    /\ pc = "api"
    /\ fidx = 1
    /\ diff = <<>>
    /\ bpos = 0
    /\ local_diff = <<>>
    /\ squigly_dict = <<>>
    /\ last_added = NONE
    /\ offset = 1
    /\ line_i = 0
    /\ output = <<>>
    /\ has_diff = FALSE
    /\ used = [changes |-> 0, calls |-> 0]
    /\ inserted_by = {}

\* mdiff.parse_line(line_no, diff_line, meta, squigly_line) is called
ApiParseLine(line_no, diff_line, meta, squigly_line) ==
    /\ pc = "api"
    /\ diff_info' = parse_line(diff_info, line_no, diff_line, meta, squigly_line)
    /\ used' = [used EXCEPT !.calls = @ + 1]
    /\ UNCHANGED <<mdiff_vars, pc, fidx, loop_vars, str_vars, inserted_by>>

\* mdiff.get_line(line_no) is called: it returns a list or raises ValueError
ApiGetLine(line_no) ==
    /\ pc = "api"
    /\ \E r \in GetLineResults(line_no) :
          /\ output' = r.output
          /\ pc' = IF r.raised THEN "raised" ELSE "returned"
    /\ line_i' = line_no
    /\ UNCHANGED <<mdiff_vars, diff_info, fidx, loop_vars, has_diff, used, inserted_by>>

\* the calls that register variants: four texts of one line, by file A or B
VariantLineNos == {7}
VariantCalls ==
    { <<RemovedLine(<<"x">>), "A">>, <<RemovedLine(<<"x">>), "B">>,
      <<RemovedLine(<<"y">>), "A">>, <<RemovedLine(<<"z">>), "B">>,
      <<RemovedLine(<<"w">>), "A">>, <<AddedLine(<<"a">>), "B">> }

RegisterVariant ==
    /\ used.calls < MaxVariantCalls
    /\ \E line_no \in VariantLineNos, c \in VariantCalls :
          ApiParseLine(line_no, c[1], c[2], <<>>)

RenderVariants == \E line_no \in VariantLineNos : ApiGetLine(line_no)

NextVariants ==
    \/ RegisterVariant
    \/ RenderVariants

SpecVariants == InitApi /\ [][NextVariants]_vars

\* the calls that register highlights: one text, at line numbers of one, two and
\* three digits and at 0, with no highlight or one of three that mark column 2
HighlightLineNos == {0, 9, 10, 100}
HighlightChoices ==
    {<<>>, <<QUESTIONMARK, SPACE, MINUS>>, <<QUESTIONMARK, SPACE, PLUS>>,
     <<QUESTIONMARK, SPACE, PLUS, HAT>>}

RegisterHighlight ==
    /\ used.calls < MaxHighlightCalls
    /\ \E line_no \in HighlightLineNos, k \in DOMAIN files, squigly_line \in HighlightChoices :
          ApiParseLine(line_no, RemovedLine(<<"x">>), basename(files[k]), squigly_line)

RenderHighlights == \E line_no \in HighlightLineNos : ApiGetLine(line_no)

NextHighlights ==
    \/ RegisterHighlight
    \/ RenderHighlights

SpecHighlights == InitApi /\ [][NextHighlights]_vars

\* ------------------------------------------------- what the claims speak of
\* the tag of a line of the differ stream
TagOf(line) == line[1]

\* the number of base lines the differ has emitted before position k of the stream:
\* the 0-based index in base_lines of the base line a '+' line at k carries, and of
\* the base line a '-' line at k stands in front of
BaseBefore(k) == Cardinality({j \in 1..(k - 1) : TagOf(diff[j]) \in {SPACE, PLUS}})

\* the positions of the stream that hold a '+' or '-' line
RecordPositions == {k \in DOMAIN diff : TagOf(diff[k]) \in {MINUS, PLUS}}

\* the loop over the differ stream of a file has ended and its entries are registered
Normalized == pc # "loop" /\ fidx > 1

\* line_no has an entry of the file just compared for the stream line at position k
StoredAt(line_no, k) ==
    /\ line_no \in DOMAIN local_diff
    /\ \E j \in DOMAIN local_diff[line_no] : local_diff[line_no][j].line = diff[k]
    /\ Normalized =>
          \E j \in DOMAIN KeyTuples(line_no, TagOf(diff[k])) :
              /\ KeyTuples(line_no, TagOf(diff[k]))[j].diff_line = rstrip(diff[k])
              /\ KeyTuples(line_no, TagOf(diff[k]))[j].meta = basename(files[fidx - 1])

\* the text of an output entry without its colour codes
Uncolor(text) == SelectSeq(text, LAMBDA c : c \notin {GREEN_BACK, RED_BACK, END_COLOR})

\* line_no has a registered tuple
HasRecords(line_no) ==
    \E key \in {MINUS, PLUS} : KeyTuples(line_no, key) # <<>>

\* the line numbers the claims look at
LineNos == (DOMAIN diff_info) \cup (0..(Len(base_lines) + 2))

\* the round trip of the spec: base [a, b, c] against a file [a, x, c]
RoundTrip ==
    /\ base_lines = <<<<"a">>, <<"b">>, <<"c">>>>
    /\ Len(files) = 1
    /\ diff = <<ContextLine(<<"a">>), RemovedLine(<<"x">>), AddedLine(<<"b">>),
                ContextLine(<<"c">>)>>

\* the rows get_line gives for the round trip's changed line: '- x' and '+ b',
\* each of one file out of one, no names, then the separator
RoundTripRows(line_no) ==
    << [kind |-> "diff", line_no |-> line_no, text |-> colorize(RemovedLine(<<"x">>), <<>>),
        count |-> 1, total |-> 1, names |-> {}],
       [kind |-> "diff", line_no |-> line_no, text |-> colorize(AddedLine(<<"b">>), <<>>),
        count |-> 1, total |-> 1, names |-> {}] >> \o Separator

\* C1 as the spec states it: every '+' and '-' record is stored under the 0-based
\* index of its base line; the round trip's two records are stored and rendered at
\* line index 1 and line 2 has no records
C1_ZeroBasedLineNo ==
    /\ \A k \in RecordPositions : StoredAt(BaseBefore(k), k)
    /\ (RoundTrip /\ pc = "done") =>
          /\ ~HasRecords(2)
          /\ \E b \in DOMAIN output :
                output[b] = [kind |-> "block", line_no |-> 1, lines |-> RoundTripRows(1)]

\* C1, amended: every '+' record is stored under 1 + the 0-based index in base_lines
\* of the base line it carries, every '-' record under 1 + the 0-based index of the
\* base line it stands in front of, and under no other line number; the round trip's
\* two records are stored and rendered as line 2, the only line with records
C1_OneBasedLineNo ==
    /\ \A k \in RecordPositions : StoredAt(BaseBefore(k) + 1, k)
    /\ \A n \in DOMAIN local_diff : \A j \in DOMAIN local_diff[n] :
          \E k \in RecordPositions :
              /\ diff[k] = local_diff[n][j].line
              /\ n = BaseBefore(k) + 1
    /\ (RoundTrip /\ pc = "done") =>
          /\ \A n \in LineNos : HasRecords(n) <=> n = 2
          /\ output = Header \o <<[kind |-> "block", line_no |-> 2,
                                   lines |-> RoundTripRows(2)], Footer>>

\* C1's case: the round trip has been compared and rendered
C1_Witness == RoundTrip /\ pc = "done" /\ HasRecords(2)

\* C6: get_line(n) returns an empty list when line n has no records; when it has,
\* the separator (' ', the rule, ' ') ends the list exactly when line n + 1 has no
\* records, and the rule appears nowhere else (stated of every table diff_info
\* comes to hold: it changes only when a file's entries are registered)
C6_SeparatorAfterRun ==
    pc # "loop" => \A n \in LineNos : \A r \in GetLineResults(n) :
        LET out == r.output
            rules == {k \in DOMAIN out : out[k] = Separator[2]}
            ended == /\ Len(out) >= 4
                     /\ SubSeq(out, Len(out) - 2, Len(out)) = Separator
                     /\ rules = {Len(out) - 1}
        IN /\ ~r.raised
           /\ ~HasRecords(n) => out = <<>>
           /\ HasRecords(n) =>
                 /\ out # <<>>
                 /\ out[1].kind = "diff"
                 /\ IF HasRecords(n + 1) THEN rules = {} ELSE ended

\* C6's case: a run of two changed lines, rendered: the block of line 1 has no
\* separator, the block of line 2 ends with it
C6_Witness ==
    /\ pc = "done"
    /\ HasRecords(1) /\ HasRecords(2) /\ ~HasRecords(3)
    /\ \E a, b \in DOMAIN output :
          /\ output[a].kind = "block" /\ output[a].line_no = 1
          /\ output[b].kind = "block" /\ output[b].line_no = 2
          /\ \A k \in DOMAIN output[a].lines : output[a].lines[k] # Separator[2]
          /\ output[b].lines[Len(output[b].lines) - 1] = Separator[2]

\* the paths whose comparison registered the diff line at line_no
Producers(line_no, diff_line) ==
    {e.path : e \in {x \in inserted_by : x.line_no = line_no /\ x.diff_line = diff_line}}

\* the paths of all compared files
AllFiles == {files[k] : k \in DOMAIN files}

\* the rows of a get_line result that render a variant
DiffRows(out) == {k \in DOMAIN out : out[k].kind = "diff"}

\* C2: the file-count get_line renders for a variant is the number of distinct
\* compared files that registered its text at that line: a second record of the
\* same file does not count, two different files always count as two
C2_CountIsDistinctFiles ==
    \A n \in LineNos : \A r \in GetLineResults(n) : \A k \in DiffRows(r.output) :
        r.output[k].count = Cardinality(Producers(n, Uncolor(r.output[k].text)))

\* C4: get_line lists the filenames of a variant exactly when the files that
\* produced it are a strict subset of the compared files
C4_NamesIffStrictSubset ==
    \A n \in LineNos : \A r \in GetLineResults(n) : \A k \in DiffRows(r.output) :
        LET producers == Producers(n, Uncolor(r.output[k].text))
        IN /\ r.output[k].names # {} <=> producers # AllFiles
           /\ r.output[k].names # {} =>
                 r.output[k].names = {basename(path) : path \in producers}

\* a stray '?' line has been consumed: it is stored under the key None
StrayConsumed == NONE \in DOMAIN squigly_dict

FollowedByHighlight(k) == k < Len(diff) /\ startswith(diff[k + 1], QUESTIONMARK)

\* C7: a '?' line is attached only to the record directly before it: a record that
\* no '?' line directly follows is registered with an empty highlight
C7_HighlightOnlyForPrecedingRecord ==
    Normalized =>
        \A k \in RecordPositions :
            ~FollowedByHighlight(k) => InsertedSquigly(diff[k]) = <<>>

\* C10: once all files are compared, every line number with records lies in
\* 0..len(base_lines)-1 and has its block in the report, and the report holds
\* '(no diff)' only if no compared file produced a record
C10_NoDiffOnlyWithoutRecords ==
    pc = "done" =>
        /\ \A n \in LineNos :
              HasRecords(n) =>
                  /\ n \in 0..(Len(base_lines) - 1)
                  /\ \E b \in DOMAIN output :
                        output[b].kind = "block" /\ output[b].line_no = n
        /\ (\E b \in DOMAIN output : output[b] = NoDiff) =>
              \A n \in LineNos : ~HasRecords(n)

\* the distinct diff lines registered at line_no under key
VariantsOf(line_no, key) == {KeyTuples(line_no, key)[j].diff_line : j \in DOMAIN KeyTuples(line_no, key)}

\* the number of distinct metas registered with a diff line at line_no
FileCount(line_no, line) ==
    LET tuples == KeyTuples(line_no, line[1])
    IN Cardinality({tuples[j].meta : j \in {i \in DOMAIN tuples : tuples[i].diff_line = line}})

\* the rows of a get_line result that render a variant of key, in their order
RenderedOf(out, key) ==
    SelectSeq(out, LAMBDA e : e.kind = "diff" /\ Uncolor(e.text)[1] = key)

\* C3: for each kind, the variants get_line renders are in non-decreasing order of
\* file-count, number min(3, number of distinct texts), and no omitted variant has
\* a strictly smaller file-count than a rendered one; Removed comes before Added
\* (stated of the rows a direct get_line call has returned)
C3_FewestFilesFirst ==
    pc = "returned" =>
        LET out == output
            n == line_i
        IN /\ SelectSeq(out, LAMBDA e : e.kind = "diff")
                = RenderedOf(out, MINUS) \o RenderedOf(out, PLUS)
           /\ \A key \in {MINUS, PLUS} :
                LET rows == RenderedOf(out, key)
                    shown == {Uncolor(rows[a].text) : a \in DOMAIN rows}
                    all == VariantsOf(n, key)
                IN /\ Len(rows) = IF Cardinality(all) < 3 THEN Cardinality(all) ELSE 3
                   /\ Cardinality(shown) = Len(rows)
                   /\ shown \subseteq all
                   /\ \A a \in DOMAIN rows :
                         rows[a].count = FileCount(n, Uncolor(rows[a].text))
                   /\ \A a, b \in DOMAIN rows : a < b => rows[a].count <= rows[b].count
                   /\ \A v \in all \ shown : \A a \in DOMAIN rows :
                         FileCount(n, v) >= rows[a].count

\* C3's case: more than three Removed variants, one of them of two files; get_line
\* has returned three rows and left out the variant of two files
C3_Witness ==
    /\ pc = "returned"
    /\ Cardinality(VariantsOf(line_i, MINUS)) > 3
    /\ Len(RenderedOf(output, MINUS)) = 3
    /\ \E v \in VariantsOf(line_i, MINUS) :
          /\ FileCount(line_i, v) = 2
          /\ \A a \in DOMAIN output : output[a].kind = "diff" => Uncolor(output[a].text) # v

\* the two marker characters that say which side a column belongs to
Specific == {MINUS, PLUS}

\* two highlights have different specific markers at column c
Collide(h1, h2, c) ==
    /\ c <= Len(h1) /\ c <= Len(h2)
    /\ h1[c] \in Specific /\ h2[c] \in Specific
    /\ h1[c] # h2[c]

\* the merges get_line makes for the tuples of line_no and key: the tuple k whose
\* highlight is merged into the highlight its diff line has after the first k - 1
MergeSteps(line_no, key) ==
    LET tuples == KeyTuples(line_no, key)
    IN {k \in DOMAIN tuples :
           /\ tuples[k].squigly_line # <<>>
           /\ tuples[k].diff_line \in DOMAIN SquiglyDict(tuples, k - 1)}

\* C8 as the spec states it: where two different specific markers collide in a merge,
\* the marker of the record inserted last survives
C8_LastWriterWins ==
    \A n \in LineNos : \A key \in {MINUS, PLUS} : \A k \in MergeSteps(n, key) :
        LET tuples == KeyTuples(n, key)
            new == tuples[k].squigly_line
            acc == SquiglyDict(tuples, k - 1)[tuples[k].diff_line]
            res == SquiglyDict(tuples, k)[tuples[k].diff_line]
        IN \A c \in 1..Len(res) : Collide(acc, new, c) => res[c] = new[c]

\* C8, amended: where two different specific markers collide in a merge, the marker
\* of the record inserted last survives only if its highlight is strictly longer than
\* the highlight merged so far; otherwise (shorter or of equal length) the marker
\* merged so far, that of the earlier record, survives
C8_LongerElseEarlierWins ==
    \A n \in LineNos : \A key \in {MINUS, PLUS} : \A k \in MergeSteps(n, key) :
        LET tuples == KeyTuples(n, key)
            new == tuples[k].squigly_line
            acc == SquiglyDict(tuples, k - 1)[tuples[k].diff_line]
            res == SquiglyDict(tuples, k)[tuples[k].diff_line]
        IN /\ Len(res) = IF Len(new) > Len(acc) THEN Len(new) ELSE Len(acc)
           /\ \A c \in 1..Len(res) :
                 Collide(acc, new, c) =>
                     res[c] = IF Len(new) > Len(acc) THEN new[c] ELSE acc[c]

\* C8's case: '? -' then '? +' registered for one text at line 9; get_line, not
\* colored, has returned the text row and the merged highlight, which keeps '-'
C8_Witness ==
    /\ pc = "returned" /\ ~colored /\ line_i = 9
    /\ Len(KeyTuples(9, MINUS)) = 2
    /\ KeyTuples(9, MINUS)[1].squigly_line = <<QUESTIONMARK, SPACE, MINUS>>
    /\ KeyTuples(9, MINUS)[2].squigly_line = <<QUESTIONMARK, SPACE, PLUS>>
    /\ output[2] = [kind |-> "text",
                    chars |-> <<SPACE, SPACE, QUESTIONMARK, SPACE, MINUS>>]

\* the number of decimal digits of n
RECURSIVE Digits(_)
Digits(n) == IF n < 10 THEN 1 ELSE 1 + Digits(n \div 10)

\* the merged highlight of a diff line registered at line_no
MergedHighlight(line_no, line) ==
    LET tuples == KeyTuples(line_no, line[1])
    IN DictGet(SquiglyDict(tuples, Len(tuples)), line, <<>>)

\* get_line has been called directly, not colored
CalledPlain == pc \in {"returned", "raised"} /\ ~colored

\* C9 as the spec states it: not colored, get_line puts after the text row of every
\* variant with a non-empty merged highlight a row of 2 + (number of digits of
\* line_no) spaces and the highlight, for every line number including 0
C9_PadTwoPlusDigits ==
    CalledPlain =>
        /\ pc = "returned"
        /\ \A k \in DiffRows(output) :
              LET h == MergedHighlight(line_i, output[k].text)
              IN h # <<>> =>
                    /\ k < Len(output)
                    /\ output[k + 1] = [kind |-> "text",
                                        chars |-> Spaces(2 + Digits(line_i)) \o h]

\* C9, amended: not colored, for every line number of at least 1 get_line puts after
\* the text row of every variant with a non-empty merged highlight a row of
\* 1 + (number of digits of line_no) spaces and the highlight, and no such row after
\* a variant without highlight; for line number 0 with a highlighted variant get_line
\* raises ValueError (math.log10(0)) and returns nothing
C9_PadOnePlusDigits ==
    CalledPlain =>
        /\ pc = "raised" =>
              /\ line_i = 0
              /\ \E v \in VariantsOf(0, MINUS) \cup VariantsOf(0, PLUS) :
                    MergedHighlight(0, v) # <<>>
        /\ pc = "returned" =>
              \A k \in DiffRows(output) :
                  LET h == MergedHighlight(line_i, output[k].text)
                  IN IF h # <<>>
                     THEN /\ line_i >= 1
                          /\ k < Len(output)
                          /\ output[k + 1] = [kind |-> "text",
                                              chars |-> Spaces(1 + Digits(line_i)) \o h]
                     ELSE k < Len(output) =>
                              \/ output[k + 1].kind = "diff"
                              \/ output[k + 1] = Separator[1]

\* C9's case: a highlighted variant at line 10, rendered not colored: three spaces
C9_Witness ==
    /\ CalledPlain /\ pc = "returned" /\ line_i = 10
    /\ MergedHighlight(10, RemovedLine(<<"x">>)) = <<QUESTIONMARK, SPACE, PLUS, HAT>>
    /\ output[2] = [kind |-> "text",
                    chars |-> <<SPACE, SPACE, SPACE, QUESTIONMARK, SPACE, PLUS, HAT>>]

====
